---- MODULE Spec2Model ----
\* Progressive bulk loading of the customer list: the batch producer
\* (generateCustomersInMemory), the IndexedDB populate path (populateDatabase),
\* and the orchestrator (App.jsx initData), run on a browser event loop.
\* One TLA+ action is one turn of the event loop: a task with the
\* continuations (microtasks) it triggers runs to completion.
EXTENDS Integers, Sequences, FiniteSets, TLC

\* ------------------------------------------------------------------ bounds
\* largest `count` handed to generateCustomersInMemory by the producer harness
MaxCount == 10
\* largest `count` of the runs that only watch the progress percentages
MaxLongCount == 50
\* largest BATCH_SIZE tried (the source fixes 5000)
MaxBatch == 3
\* largest TOTAL_RECORDS / BATCH_SIZE tried (the source fixes 1000000 / 5000)
MaxBatches == 3
\* number of user-interface events (keystroke, click, timer) the host may queue
MaxUI == 2

\* ------------------------------------------------- IEEE-754 double arithmetic
\* A double is [l |-> five base-2^13 limbs, least significant first, e |-> n]:
\* the value (l[1] + l[2]*2^13 + ... + l[5]*2^52) * 2^e, rounded to 53
\* significant bits, ties to even, as the JavaScript Number operators do.
RECURSIVE Pow2(_)
Pow2(n) == IF n = 0 THEN 1 ELSE 2 * Pow2(n - 1)

LIMB == Pow2(13)

AddLow(l, c) ==
  LET n1 == l[1] + c
      n2 == l[2] + n1 \div LIMB
      n3 == l[3] + n2 \div LIMB
      n4 == l[4] + n3 \div LIMB
      n5 == l[5] + n4 \div LIMB
  IN  <<n1 % LIMB, n2 % LIMB, n3 % LIMB, n4 % LIMB, n5>>

\* processed / total, for 1 <= processed <= total < 2^17
FDiv(p, t) ==
  LET s  == CHOOSE k \in 0..17 : p * Pow2(k) >= t /\ (k = 0 \/ p * Pow2(k - 1) < t)
      r0 == p * Pow2(s) - t
      d4 == (r0 * LIMB) \div t
      r1 == (r0 * LIMB) % t
      d3 == (r1 * LIMB) \div t
      r2 == (r1 * LIMB) % t
      d2 == (r2 * LIMB) \div t
      r3 == (r2 * LIMB) % t
      d1 == (r3 * LIMB) \div t
      r4 == (r3 * LIMB) % t
      up == 2 * r4 > t \/ (2 * r4 = t /\ d1 % 2 = 1)
  IN  [l |-> AddLow(<<d1, d2, d3, d4, 1>>, IF up THEN 1 ELSE 0), e |-> 0 - 52 - s]

\* x * c for a double x and a small integer c
FMulInt(x, c) ==
  LET t1 == x.l[1] * c
      t2 == x.l[2] * c + t1 \div LIMB
      t3 == x.l[3] * c + t2 \div LIMB
      t4 == x.l[4] * c + t3 \div LIMB
      t5 == x.l[5] * c + t4 \div LIMB
      p  == <<t1 % LIMB, t2 % LIMB, t3 % LIMB, t4 % LIMB, t5>>
      bl == CHOOSE k \in 0..18 : t5 < Pow2(k) /\ (k = 0 \/ t5 >= Pow2(k - 1))
      drop == bl - 1
      D    == Pow2(drop)
      low  == p[1] % D
      lsb  == (p[1] \div D) % 2
      up   == drop > 0 /\ (2 * low > D \/ (2 * low = D /\ lsb = 1))
  IN  [l |-> AddLow(<<p[1] - low, p[2], p[3], p[4], p[5]>>, IF up THEN D ELSE 0), e |-> x.e]

\* Math.floor(x) for a double 0 <= x < 2^17 with x.e <= -52
FFloor(x) == x.l[5] \div Pow2(0 - x.e - 52)

\* the progress callback's Math.floor((processed / total) * 100)
Percent(processed, total) == FFloor(FMulInt(FDiv(processed, total), 100))

\* the percentages of every count up to the largest total, computed once
MaxTotal == IF MaxLongCount > MaxBatch * MaxBatches THEN MaxLongCount
            ELSE MaxBatch * MaxBatches

PercentTable ==
  [total \in 1..MaxTotal |-> [processed \in 1..total |-> Percent(processed, total)]]

ProgressPercent(processed, total) ==
  IF processed \in 1..total /\ total <= MaxTotal
  THEN PercentTable[total][processed]
  ELSE Percent(processed, total)

\* ------------------------------------------------------------------ helpers
Min(a, b) == IF a < b THEN a ELSE b

Range(s) == {s[i] : i \in 1..Len(s)}

RECURSIVE Concat(_)
Concat(ss) == IF ss = <<>> THEN <<>> ELSE Head(ss) \o Concat(Tail(ss))

\* ------------------------------------------------------------------- state
VARIABLES
  BATCH_SIZE,      \* records per batch (scaled-down stand-in of 5000)
  TOTAL_RECORDS,   \* records populateDatabase writes (stand-in of 1000000)
  count,           \* the `count` argument of generateCustomersInMemory
  path,            \* what the session runs: "generate", "populate" or "app"
  onBatchComplete, \* whether the caller supplied a batch-ready callback
  taskQueue,       \* the host's queue of tasks waiting for a turn
  turnWindows,     \* windows generated in the turn now running / last run
  uiQueued,        \* number of user-interface events queued so far
  uiDone,          \* user-interface events already handled
  timerArmed,      \* a setTimeout(resolve, 0) that has not fired yet
  gen,             \* the generateCustomersInMemory activation
  pop,             \* the populateDatabase activation
  tx,              \* the IndexedDB transaction in flight
  store,           \* keys of the records in the 'customers' object store
  calls,           \* callback invocations seen by the caller, in order
  windows,         \* windows generated so far
  uiWaited,        \* some window was generated after events that waited for it
  progress,        \* React state `progress`
  customers,       \* React state `customers`: what setCustomers was last given
  loading,         \* React state `loading`
  error,           \* React state `error`
  useMemoryStorage,\* React state `useMemoryStorage`
  db,              \* React state `db`
  available,       \* whether window.indexedDB exists in this browser
  req,             \* the IndexedDB request (open, count, getAll) in flight
  app,             \* the initData activation and the calls it has made
  searchTerm,      \* React state `searchTerm`: what the search input holds
  debouncedSearchTerm, \* the value useDebounce(searchTerm, 250) returns
  debounceTimer,   \* the values held by the timers of useDebounce that have not fired
  sortConfig       \* React state `sortConfig`: the column and the direction

hostVars  == <<taskQueue, turnWindows, uiQueued, uiDone, timerArmed>>
paramVars == <<BATCH_SIZE, TOTAL_RECORDS, count, path, onBatchComplete>>
genVars   == <<gen>>
popVars   == <<pop, tx, store>>
obsVars   == <<calls, windows, uiWaited, progress>>
appVars   == <<customers, loading, error, useMemoryStorage, db, available, req, app>>
viewVars  == <<searchTerm, debouncedSearchTerm, debounceTimer, sortConfig>>

vars == <<paramVars, hostVars, genVars, popVars, obsVars, appVars, viewVars>>

\* the search box and the table header before the user has touched them; the
\* load sessions leave them so
ViewIdle ==
  /\ searchTerm = <<>>
  /\ debouncedSearchTerm = <<>>
  /\ debounceTimer = {}
  /\ sortConfig = [column |-> "id", direction |-> "asc"]

Task(type, id) == [type |-> type, id |-> id]

UIPending(q) == {q[i].id : i \in {j \in 1..Len(q) : q[j].type = "ui"}}

Ids(records) == {records[i].id : i \in 1..Len(records)}

\* ------------------------------------------------------ the host event loop
\* the user types, clicks or a timer of the page fires: the host queues a task
UIArrive ==
  /\ uiQueued < MaxUI
  /\ uiQueued' = uiQueued + 1
  /\ taskQueue' = Append(taskQueue, Task("ui", uiQueued + 1))
  /\ UNCHANGED <<viewVars, paramVars, turnWindows, uiDone, timerArmed, genVars, popVars, obsVars, appVars>>

\* the host gives a turn to a queued user-interface task
UITask ==
  /\ taskQueue # <<>>
  /\ Head(taskQueue).type = "ui"
  /\ taskQueue' = Tail(taskQueue)
  /\ uiDone' = uiDone \cup {Head(taskQueue).id}
  /\ turnWindows' = 0
  /\ UNCHANGED <<viewVars, paramVars, uiQueued, timerArmed, genVars, popVars, obsVars, appVars>>

\* a setTimeout(resolve, 0) expires: the host queues its task behind the
\* tasks already waiting
TimerFire ==
  /\ timerArmed
  /\ timerArmed' = FALSE
  /\ taskQueue' = Append(taskQueue, Task("timer", 0))
  /\ UNCHANGED <<viewVars, paramVars, turnWindows, uiQueued, uiDone, genVars, popVars, obsVars, appVars>>

\* ------------------------------------------------- records and callbacks
\* generateCustomer(id): the fields other than id are random and play no
\* part in loading
generateCustomer(id) == [id |-> id]

ProgressCall(processed, total) ==
  [cb |-> "progress", processed |-> processed, total |-> total,
   percent |-> ProgressPercent(processed, total), records |-> <<>>]

BatchCall(records) ==
  [cb |-> "batch", processed |-> 0, total |-> 0, percent |-> 0, records |-> records]

\* a window as the log keeps it: its identifiers and whether every
\* user-interface event that was waiting when the window before it ended
\* had been handled when this one was generated
Window(first, last, pending) ==
  [first |-> first, last |-> last, served |-> pending \subseteq uiDone]

\* user-interface events waited when the window before ended and were all
\* handled before this one is generated
Waited(pending) == pending # {} /\ pending \subseteq uiDone

\* ----------------------------------------------------------- the generator
BatchEndNoClamp(batchStart, cnt, size) == batchStart + size - 1

BatchEnd(batchStart, cnt, size) == Min(batchStart + size - 1, cnt)

BatchCustomersDescending(batchStart, batchEnd) ==
  [i \in 1..(batchEnd - batchStart + 1) |-> generateCustomer(batchEnd - i + 1)]

BatchCustomers(batchStart, batchEnd) ==
  [i \in 1..(batchEnd - batchStart + 1) |-> generateCustomer(batchStart + i - 1)]

NextBatchStart(batchStart, size) == batchStart + size

\* the callbacks of one window of generateCustomersInMemory, in call order
GenCallbacks(batchCustomers, batchEnd, cnt, withBatch) ==
  <<ProgressCall(batchEnd, cnt)>>
    \o (IF withBatch THEN <<BatchCall(batchCustomers)>> ELSE <<>>)

\* what the loop awaits after a window: a promise resolved by setTimeout(.., 0)
\* suspends the function until a later task; one that is already resolved would
\* let it go on in the same turn
GenYieldMicrotask == "microtask"

GenYield == "timeout"

\* the window starts the loop runs through, from batchStart, before it is
\* suspended until a later task (or returns)
RECURSIVE GenRun(_, _, _)
GenRun(batchStart, cnt, size) ==
  IF batchStart > cnt THEN <<>>
  ELSE IF GenYield = "timeout" THEN <<batchStart>>
  ELSE <<batchStart>> \o GenRun(NextBatchStart(batchStart, size), cnt, size)

GenWindowCalls(batchStart) ==
  LET batchEnd == BatchEnd(batchStart, count, BATCH_SIZE)
  IN  GenCallbacks(BatchCustomers(batchStart, batchEnd), batchEnd, count, onBatchComplete)

GenWindowRecords(batchStart) ==
  BatchCustomers(batchStart, BatchEnd(batchStart, count, BATCH_SIZE))

\* the loop from batchStart up to its next suspension: the windows are
\* generated, their callbacks run, the timer is armed; when the loop test
\* fails the async function returns allCustomers
GenLoop(batchStart, q, pending, already) ==
  LET run  == GenRun(batchStart, count, BATCH_SIZE)
      n    == Len(run)
      last == IF n = 0 THEN gen.batchStart ELSE run[n]
      ret  == n = 0 \/ GenYield # "timeout"
  IN  /\ gen' = [pc |-> IF ret THEN "returned" ELSE "suspended",
                 batchStart |-> last,
                 allCustomers |-> gen.allCustomers \o Concat([i \in 1..n |-> GenWindowRecords(run[i])]),
                 uiPending |-> UIPending(q)]
      /\ calls' = calls \o Concat([i \in 1..n |-> GenWindowCalls(run[i])])
      /\ progress' = IF n = 0 THEN progress
                     ELSE ProgressPercent(BatchEnd(last, count, BATCH_SIZE), count)
      /\ windows' = windows \o [i \in 1..n |->
                      Window(run[i], BatchEnd(run[i], count, BATCH_SIZE), pending)]
      /\ uiWaited' = (uiWaited \/ (n > 0 /\ Waited(pending)))
      /\ turnWindows' = already + n
      /\ timerArmed' = ~ret
      /\ taskQueue' = q

\* the caller invokes generateCustomersInMemory(count, onProgress, onBatchComplete)
GenCall ==
  /\ path = "generate"
  /\ gen.pc = "idle"
  /\ GenLoop(1, taskQueue, {}, 0)
  /\ UNCHANGED <<viewVars, paramVars, uiQueued, uiDone, popVars, appVars>>

\* the timer task resolves the awaited promise: the loop goes on
GenResume ==
  /\ gen.pc = "suspended"
  /\ taskQueue # <<>>
  /\ Head(taskQueue).type = "timer"
  /\ GenLoop(NextBatchStart(gen.batchStart, BATCH_SIZE), Tail(taskQueue), gen.uiPending, 0)
  /\ UNCHANGED <<viewVars, paramVars, uiQueued, uiDone, popVars, appVars>>

\* something inside the resumed function throws (the array cannot grow, a
\* callback fails): the function is async, so its promise rejects; the caller
\* holds that promise without a handler and nothing of its state changes
GenThrow ==
  /\ gen.pc = "suspended"
  /\ taskQueue # <<>>
  /\ Head(taskQueue).type = "timer"
  /\ gen' = [gen EXCEPT !.pc = "failed"]
  /\ taskQueue' = Tail(taskQueue)
  /\ turnWindows' = 0
  /\ UNCHANGED <<viewVars, paramVars, uiQueued, uiDone, timerArmed, popVars, obsVars, appVars>>

\* ------------------------------------------------------ populateDatabase
\* the callbacks of one committed batch of populateDatabase, in call order
PopCallbacksBatchFirst(batchCustomers, processed, total, withBatch) ==
  (IF withBatch THEN <<BatchCall(batchCustomers)>> ELSE <<>>)
    \o <<ProgressCall(processed, total)>>

PopCallbacks(batchCustomers, processed, total, withBatch) ==
  <<ProgressCall(processed, total)>>
    \o (IF withBatch THEN <<BatchCall(batchCustomers)>> ELSE <<>>)

\* the transaction event on which a batch is reported to the caller
PopReportEventCreated == "created"

PopReportEvent == "complete"

\* what the catch block around the loop does with a transaction failure
PopCatchSwallow == "swallow"

PopCatch == "rethrow"

PopBatchCustomers(batch, size) ==
  [i \in 1..size |-> generateCustomer(batch * size + i)]

\* the loop test: batch < TOTAL_RECORDS / BATCH_SIZE
PopMore(batch, total, size) == batch * size < total

\* one pass of the for loop up to the await of the transaction: the batch is
\* generated, a readwrite transaction is opened and every record is add()ed
PopBatch(batch, q, pending, already) ==
  LET batchCustomers == PopBatchCustomers(batch, BATCH_SIZE)
      early == PopReportEvent = "created"
  IN  /\ pop' = [pop EXCEPT !.pc = "awaitTx", !.batch = batch,
                            !.batchCustomers = batchCustomers]
      /\ tx' = [state |-> "active", records |-> batchCustomers]
      /\ windows' = Append(windows, Window(batch * BATCH_SIZE + 1,
                                           batch * BATCH_SIZE + BATCH_SIZE, pending))
      /\ uiWaited' = (uiWaited \/ Waited(pending))
      /\ calls' = IF early
                  THEN calls \o PopCallbacks(batchCustomers, pop.processed + BATCH_SIZE,
                                             TOTAL_RECORDS, onBatchComplete)
                  ELSE calls
      /\ progress' = IF early THEN ProgressPercent(pop.processed + BATCH_SIZE, TOTAL_RECORDS)
                     ELSE progress
      /\ turnWindows' = already + 1
      /\ taskQueue' = q
      /\ UNCHANGED <<timerArmed, store>>

\* the loop test fails: the promise of populateDatabase resolves
PopReturn(q) ==
  /\ pop' = [pop EXCEPT !.pc = "resolved"]
  /\ taskQueue' = q
  /\ turnWindows' = 0
  /\ UNCHANGED <<tx, store, obsVars, timerArmed>>

\* the caller invokes populateDatabase(db, onProgress, onBatchComplete)
PopCall ==
  /\ path = "populate"
  /\ pop.pc = "idle"
  /\ IF PopMore(0, TOTAL_RECORDS, BATCH_SIZE)
     THEN PopBatch(0, taskQueue, {}, 0)
     ELSE PopReturn(taskQueue)
  /\ UNCHANGED <<viewVars, paramVars, uiQueued, uiDone, genVars, appVars>>

\* the engine commits the transaction: every add() took effect; it queues
\* the complete event. add() of a key the store already holds cannot succeed.
TxCommit ==
  /\ tx.state = "active"
  /\ Ids(tx.records) \cap store = {}
  /\ store' = store \cup Ids(tx.records)
  /\ tx' = [tx EXCEPT !.state = "committed"]
  /\ taskQueue' = Append(taskQueue, Task("complete", 0))
  /\ UNCHANGED <<viewVars, paramVars, turnWindows, uiQueued, uiDone, timerArmed, genVars,
                 pop, obsVars, appVars>>

\* a request of the transaction fails (a key that exists, a full disk): the
\* error event reaches transaction.onerror, the transaction is aborted and
\* nothing of it is stored
TxRequestError ==
  /\ tx.state = "active"
  /\ tx' = [tx EXCEPT !.state = "aborted"]
  /\ taskQueue' = taskQueue \o <<Task("error", 0), Task("abort", 0)>>
  /\ UNCHANGED <<viewVars, paramVars, turnWindows, uiQueued, uiDone, timerArmed, genVars,
                 pop, store, obsVars, appVars>>

\* the engine aborts the transaction without a request error (quota at
\* commit, connection closed): only the abort event is fired
TxAbort ==
  /\ tx.state = "active"
  /\ tx' = [tx EXCEPT !.state = "aborted"]
  /\ taskQueue' = Append(taskQueue, Task("abort", 0))
  /\ UNCHANGED <<viewVars, paramVars, turnWindows, uiQueued, uiDone, timerArmed, genVars,
                 pop, store, obsVars, appVars>>

\* transaction.oncomplete: the batch is counted and reported, the awaited
\* promise resolves and the loop arms the timer it awaits next
CompleteTask ==
  /\ taskQueue # <<>>
  /\ Head(taskQueue).type = "complete"
  /\ pop.pc = "awaitTx"
  /\ LET processed == pop.processed + BATCH_SIZE
         late == PopReportEvent = "complete"
     IN  /\ pop' = [pop EXCEPT !.pc = "suspended", !.processed = processed,
                               !.uiPending = UIPending(Tail(taskQueue))]
         /\ calls' = IF late
                     THEN calls \o PopCallbacks(pop.batchCustomers, processed,
                                                TOTAL_RECORDS, onBatchComplete)
                     ELSE calls
         /\ progress' = IF late THEN ProgressPercent(processed, TOTAL_RECORDS) ELSE progress
  /\ taskQueue' = Tail(taskQueue)
  /\ timerArmed' = TRUE
  /\ turnWindows' = 0
  /\ UNCHANGED <<viewVars, paramVars, uiQueued, uiDone, genVars, tx, store, windows, uiWaited, appVars>>

\* ------------------------------------------- App: continuations of initData
Null == "null"

\* a value given to setCustomers: an array of records, or the Promise object
\* that a call of an async function returns (it has no length and no items)
ArrayValue(items) == [isArray |-> TRUE, items |-> items]

PromiseValue == [isArray |-> FALSE, items |-> <<>>]

ReqNone == [kind |-> "none", state |-> "none", count |-> 0, result |-> <<>>]

ReqPending(kind) == [kind |-> kind, state |-> "pending", count |-> 0, result |-> <<>>]

\* objectStore.getAll(): every record of the store in key order
GetAll(st) ==
  [i \in 1..Cardinality(st) |->
     generateCustomer(CHOOSE x \in st : Cardinality({y \in st : y < x}) = i - 1)]

\* isDatabasePopulated resolves count >= 1000000
IsPopulatedNonEmpty(n, total) == n > 0

IsPopulated(n, total) == n >= total

\* the test of initData on the answer of isDatabasePopulated
AppNeedsPopulateAlways(isPopulated) == TRUE

AppNeedsPopulate(isPopulated) == ~isPopulated

\* initData is suspended in `await populateDatabase(..)` and populateDatabase
\* in the await of its transaction
AppAwaitsPopulate == path = "app" /\ app.pc = "populating" /\ pop.pc = "awaitTx"

AppMemoryFlagNotSet(q) ==
  /\ UNCHANGED useMemoryStorage
  /\ GenLoop(1, q, {}, 0)
  /\ customers' = PromiseValue
  /\ loading' = FALSE

\* the memory path of initData (probe failed, or catch block): the flag is
\* set, generateCustomersInMemory is called and runs up to its first await,
\* the Promise it returns is given to setCustomers and loading ends.
\* generateCustomersInMemory is async, so nothing it throws reaches the
\* inner catch.
AppMemory(q) ==
  /\ useMemoryStorage' = TRUE
  /\ GenLoop(1, q, {}, 0)
  /\ customers' = PromiseValue
  /\ loading' = FALSE

\* the values the catch block gives to setError, in order: the message of the
\* failure first, null once the generation has been called. They are set in
\* one turn, so the page is rendered with the last.
CatchErrorsKept(message) == <<message>>

CatchErrors(message) == <<message, Null>>

\* a catch block that, beside the memory path, would open the store again
AppCatchReopen(message, q) ==
  /\ AppMemory(q)
  /\ error' = CatchErrors(message)[Len(CatchErrors(message))]
  /\ app' = [app EXCEPT !.pc = "done", !.failure = message,
                        !.generates = app.generates + 1, !.opens = app.opens + 1]
  /\ req' = ReqPending("open")
  /\ UNCHANGED <<db, available>>

\* catch (err) of initData: the memory path and nothing else; no request is
\* sent to the store
AppCatch(message, q) ==
  /\ AppMemory(q)
  /\ error' = CatchErrors(message)[Len(CatchErrors(message))]
  /\ app' = [app EXCEPT !.pc = "done", !.failure = message,
                        !.generates = app.generates + 1]
  /\ UNCHANGED <<db, available, req>>

\* initData awaits loadCustomers: setLoading(false) runs when the promise
\* of loadCustomers has resolved, not when the call has returned
AppLoadAwaitedNot == FALSE

AppLoadAwaited == TRUE

\* loadCustomers(database): a readonly transaction and a getAll request
AppLoadCustomers ==
  /\ req' = ReqPending("getAll")
  /\ app' = [app EXCEPT !.pc = "loading", !.readAlls = app.readAlls + 1]
  /\ loading' = (loading /\ AppLoadAwaited)
  /\ UNCHANGED <<customers, error, useMemoryStorage, db, available>>

\* populateDatabase settles while initData awaits it
AppPopulateRejected(message, q) ==
  IF PopCatch = "rethrow"
  THEN AppCatch(message, q)
  ELSE /\ AppLoadCustomers
       /\ taskQueue' = q
       /\ turnWindows' = 0
       /\ UNCHANGED <<timerArmed, genVars, obsVars>>

\* reject(error) in a transaction handler: the await throws into the catch
\* block, which logs and rethrows, so the promise of populateDatabase rejects.
\* A promise that is settled already ignores the call.
PopReject(message) ==
  IF pop.pc = "awaitTx"
  THEN pop' = [pop EXCEPT !.pc = IF PopCatch = "rethrow" THEN "rejected" ELSE "resolved",
                          !.error = message]
  ELSE pop' = pop

\* transaction.onerror
ErrorTask ==
  /\ taskQueue # <<>>
  /\ Head(taskQueue).type = "error"
  /\ PopReject("Transaction error")
  /\ IF AppAwaitsPopulate
     THEN AppPopulateRejected("Transaction error", Tail(taskQueue))
     ELSE /\ taskQueue' = Tail(taskQueue)
          /\ turnWindows' = 0
          /\ UNCHANGED <<timerArmed, genVars, obsVars, appVars>>
  /\ UNCHANGED <<viewVars, paramVars, uiQueued, uiDone, tx, store>>

\* transaction.onabort
AbortTask ==
  /\ taskQueue # <<>>
  /\ Head(taskQueue).type = "abort"
  /\ PopReject("Transaction aborted")
  /\ IF AppAwaitsPopulate
     THEN AppPopulateRejected("Transaction aborted", Tail(taskQueue))
     ELSE /\ taskQueue' = Tail(taskQueue)
          /\ turnWindows' = 0
          /\ UNCHANGED <<timerArmed, genVars, obsVars, appVars>>
  /\ UNCHANGED <<viewVars, paramVars, uiQueued, uiDone, tx, store>>

\* the timer task resolves the promise awaited after a batch: the loop goes on
PopResume ==
  /\ pop.pc = "suspended"
  /\ taskQueue # <<>>
  /\ Head(taskQueue).type = "timer"
  /\ IF PopMore(pop.batch + 1, TOTAL_RECORDS, BATCH_SIZE)
     THEN PopBatch(pop.batch + 1, Tail(taskQueue), pop.uiPending, 0) /\ UNCHANGED appVars
     ELSE /\ PopReturn(Tail(taskQueue))
          /\ IF path = "app" THEN AppLoadCustomers ELSE UNCHANGED appVars
  /\ UNCHANGED <<viewVars, paramVars, uiQueued, uiDone, genVars>>

\* ------------------------------------------- batch producer specification
\* A caller that passes both callbacks runs generateCustomersInMemory(count,
\* ..) for every count, or populateDatabase on a store that is empty or was
\* left partly written by an interrupted run.
GenIdle == [pc |-> "idle", batchStart |-> 0, allCustomers |-> <<>>, uiPending |-> {}]

PopIdle == [pc |-> "idle", batch |-> 0, processed |-> 0, batchCustomers |-> <<>>,
            uiPending |-> {}, error |-> ""]

AppIdle == [pc |-> "idle", isPopulated |-> "unknown", failure |-> "", probes |-> 0,
            opens |-> 0, counts |-> 0, populates |-> 0, readAlls |-> 0, generates |-> 0]

TxNone == [state |-> "none", records |-> <<>>]

InitBatch ==
  /\ BATCH_SIZE \in 1..MaxBatch
  /\ path \in {"generate", "populate"}
  /\ IF path = "generate"
     THEN /\ count \in 1..MaxCount
          /\ TOTAL_RECORDS = count
          /\ store = {}
     ELSE /\ TOTAL_RECORDS \in {BATCH_SIZE * n : n \in 1..MaxBatches}
          /\ count = TOTAL_RECORDS
          /\ store \in {1..(BATCH_SIZE * k) : k \in 0..(MaxBatches - 1)}
          /\ Cardinality(store) < TOTAL_RECORDS
  /\ onBatchComplete = TRUE
  /\ taskQueue = <<>>
  /\ turnWindows = 0
  /\ uiQueued = 0
  /\ uiDone = {}
  /\ timerArmed = FALSE
  /\ gen = GenIdle
  /\ pop = PopIdle
  /\ tx = TxNone
  /\ calls = <<>>
  /\ windows = <<>>
  /\ uiWaited = FALSE
  /\ progress = 0
  /\ customers = ArrayValue(<<>>)
  /\ loading = TRUE
  /\ error = Null
  /\ useMemoryStorage = FALSE
  /\ db = Null
  /\ available = TRUE
  /\ req = ReqNone
  /\ app = AppIdle
  /\ ViewIdle

NextBatch ==
  \/ UIArrive \/ UITask \/ TimerFire
  \/ GenCall \/ GenResume
  \/ PopCall \/ TxCommit \/ TxRequestError \/ TxAbort
  \/ CompleteTask \/ ErrorTask \/ AbortTask \/ PopResume

SpecBatch == InitBatch /\ [][NextBatch]_vars

\* --------------------------------------------------- App: initData, in turns
\* the mount effect calls initData: setError(null), the probe, and then either
\* the memory path or initializeDatabase, which probes again and opens
AppStart ==
  /\ path = "app"
  /\ app.pc = "idle"
  /\ IF ~available
     THEN /\ AppMemory(taskQueue)
          /\ error' = Null
          /\ app' = [app EXCEPT !.pc = "done", !.probes = 1, !.generates = 1]
          /\ UNCHANGED req
     ELSE /\ req' = ReqPending("open")
          /\ app' = [app EXCEPT !.pc = "opening", !.probes = 2, !.opens = 1]
          /\ error' = Null
          /\ UNCHANGED <<customers, loading, useMemoryStorage, hostVars, genVars, obsVars>>
  /\ UNCHANGED <<viewVars, paramVars, uiQueued, uiDone, popVars, db, available>>

\* a request the engine can serve: one that waits for no other session
Answerable(r) == r.state \in {"pending", "unblocked"}

\* the engine answers the request in flight with what the store holds then
RequestSucceeds ==
  /\ Answerable(req)
  /\ req' = [req EXCEPT !.state = "done",
                        !.count = IF req.kind = "count" THEN Cardinality(store) ELSE 0,
                        !.result = IF req.kind = "getAll" THEN GetAll(store) ELSE <<>>]
  /\ taskQueue' = Append(taskQueue, Task("success", 0))
  /\ UNCHANGED <<viewVars, paramVars, turnWindows, uiQueued, uiDone, timerArmed, genVars, popVars,
                 obsVars, customers, loading, error, useMemoryStorage, db, available, app>>

\* the engine fails the request in flight
RequestFails ==
  /\ Answerable(req)
  /\ req' = [req EXCEPT !.state = "failed"]
  /\ taskQueue' = Append(taskQueue, Task("requesterror", 0))
  /\ UNCHANGED <<viewVars, paramVars, turnWindows, uiQueued, uiDone, timerArmed, genVars, popVars,
                 obsVars, customers, loading, error, useMemoryStorage, db, available, app>>

\* the open request cannot be served while another session holds the
\* database: the engine fires the blocked event and keeps the request waiting
OpenBlocked ==
  /\ req.kind = "open"
  /\ req.state = "pending"
  /\ req' = [req EXCEPT !.state = "blocked"]
  /\ taskQueue' = Append(taskQueue, Task("blocked", 0))
  /\ UNCHANGED <<viewVars, paramVars, turnWindows, uiQueued, uiDone, timerArmed, genVars, popVars,
                 obsVars, customers, loading, error, useMemoryStorage, db, available, app>>

\* the other session lets go of the database: the engine can serve the
\* request; the blocked event is fired once for a request
OpenUnblocked ==
  /\ req.state = "blocked"
  /\ req' = [req EXCEPT !.state = "unblocked"]
  /\ UNCHANGED <<viewVars, paramVars, hostVars, genVars, popVars, obsVars,
                 customers, loading, error, useMemoryStorage, db, available, app>>

\* request.onblocked of indexedDB.open: a warning is logged, the promise of
\* initializeDatabase is neither resolved nor rejected
BlockedTask ==
  /\ taskQueue # <<>>
  /\ Head(taskQueue).type = "blocked"
  /\ taskQueue' = Tail(taskQueue)
  /\ turnWindows' = 0
  /\ UNCHANGED <<viewVars, paramVars, uiQueued, uiDone, timerArmed, genVars, popVars, obsVars, appVars>>

\* a handler that rejects the promise initData awaits: the catch block runs
AppRequestRejected(kind, message) ==
  /\ taskQueue # <<>>
  /\ Head(taskQueue).type = "requesterror"
  /\ req.kind = kind
  /\ AppCatch(message, Tail(taskQueue))
  /\ UNCHANGED <<viewVars, paramVars, uiQueued, uiDone, popVars>>

\* request.onsuccess of indexedDB.open: initData goes on with setDb and
\* isDatabasePopulated, which sends a count request
OpenSuccessTask ==
  /\ taskQueue # <<>>
  /\ Head(taskQueue).type = "success"
  /\ req.kind = "open"
  /\ db' = "CustomersDB"
  /\ req' = ReqPending("count")
  /\ app' = [app EXCEPT !.pc = "counting", !.counts = app.counts + 1]
  /\ taskQueue' = Tail(taskQueue)
  /\ turnWindows' = 0
  /\ UNCHANGED <<viewVars, paramVars, uiQueued, uiDone, timerArmed, genVars, popVars, obsVars,
                 customers, loading, error, useMemoryStorage, available>>

\* request.onerror of indexedDB.open
OpenErrorTask == AppRequestRejected("open", "IndexedDB error")

\* countRequest.onsuccess: initData goes on with populateDatabase or, when
\* the store is populated, with loadCustomers
CountSuccessTask ==
  /\ taskQueue # <<>>
  /\ Head(taskQueue).type = "success"
  /\ req.kind = "count"
  /\ LET isPopulated == IsPopulated(req.count, TOTAL_RECORDS)
         known == [app EXCEPT !.isPopulated = IF isPopulated THEN "true" ELSE "false"]
     IN  IF AppNeedsPopulate(isPopulated)
         THEN /\ app' = [known EXCEPT !.pc = "populating", !.populates = app.populates + 1]
              /\ req' = ReqNone
              /\ IF PopMore(0, TOTAL_RECORDS, BATCH_SIZE)
                 THEN PopBatch(0, Tail(taskQueue), {}, 0)
                 ELSE PopReturn(Tail(taskQueue))
              /\ UNCHANGED loading
         ELSE /\ app' = [known EXCEPT !.pc = "loading", !.readAlls = app.readAlls + 1]
              /\ req' = ReqPending("getAll")
              /\ loading' = (loading /\ AppLoadAwaited)
              /\ taskQueue' = Tail(taskQueue)
              /\ turnWindows' = 0
              /\ UNCHANGED <<timerArmed, popVars, obsVars>>
  /\ UNCHANGED <<viewVars, paramVars, uiQueued, uiDone, genVars, customers, error,
                 useMemoryStorage, db, available>>

\* countRequest.onerror
CountErrorTask == AppRequestRejected("count", "Count error")

\* request.onsuccess of getAll: setCustomers(result), the promise resolves
\* and initData ends with setLoading(false)
GetAllSuccessTask ==
  /\ taskQueue # <<>>
  /\ Head(taskQueue).type = "success"
  /\ req.kind = "getAll"
  /\ customers' = ArrayValue(req.result)
  /\ loading' = FALSE
  /\ app' = [app EXCEPT !.pc = "done"]
  /\ taskQueue' = Tail(taskQueue)
  /\ turnWindows' = 0
  /\ UNCHANGED <<viewVars, paramVars, uiQueued, uiDone, timerArmed, genVars, popVars, obsVars,
                 error, useMemoryStorage, db, available, req>>

\* request.onerror of getAll
GetAllErrorTask == AppRequestRejected("getAll", "Load error")

\* ------------------------------------------------------- App specification
\* The page is mounted in a browser with or without IndexedDB, on a store that
\* is empty, partly written by an interrupted session, or fully populated.
InitApp ==
  /\ BATCH_SIZE \in 1..MaxBatch
  /\ path = "app"
  /\ TOTAL_RECORDS \in {BATCH_SIZE * n : n \in 1..MaxBatches}
  /\ count = TOTAL_RECORDS
  /\ available \in BOOLEAN
  /\ store \in {1..(BATCH_SIZE * k) : k \in 0..MaxBatches}
  /\ Cardinality(store) <= TOTAL_RECORDS
  /\ available = FALSE => store = {}
  /\ onBatchComplete = FALSE
  /\ taskQueue = <<>>
  /\ turnWindows = 0
  /\ uiQueued = 0
  /\ uiDone = {}
  /\ timerArmed = FALSE
  /\ gen = GenIdle
  /\ pop = PopIdle
  /\ tx = TxNone
  /\ calls = <<>>
  /\ windows = <<>>
  /\ uiWaited = FALSE
  /\ progress = 0
  /\ customers = ArrayValue(<<>>)
  /\ loading = TRUE
  /\ error = Null
  /\ useMemoryStorage = FALSE
  /\ db = Null
  /\ req = ReqNone
  /\ app = AppIdle
  /\ ViewIdle

NextApp ==
  \/ UIArrive \/ UITask \/ TimerFire
  \/ AppStart \/ RequestSucceeds \/ RequestFails
  \/ OpenBlocked \/ OpenUnblocked \/ BlockedTask
  \/ OpenSuccessTask \/ OpenErrorTask
  \/ CountSuccessTask \/ CountErrorTask
  \/ GetAllSuccessTask \/ GetAllErrorTask
  \/ GenResume \/ GenThrow
  \/ TxCommit \/ TxRequestError \/ TxAbort
  \/ CompleteTask \/ ErrorTask \/ AbortTask \/ PopResume

SpecApp == InitApp /\ [][NextApp]_vars

\* ------------------------------------------ App specification, fair scheduling
\* The host runs every task it has queued and fires every timer it has armed;
\* the engine answers every request it can serve and ends every transaction.
\* Nothing is assumed of the user, nor of the other session that blocks an
\* open request.
EventLoopTurn ==
  \/ UITask \/ TimerFire \/ AppStart
  \/ GenResume \/ GenThrow
  \/ CompleteTask \/ ErrorTask \/ AbortTask \/ PopResume
  \/ BlockedTask
  \/ OpenSuccessTask \/ OpenErrorTask
  \/ CountSuccessTask \/ CountErrorTask
  \/ GetAllSuccessTask \/ GetAllErrorTask

EngineAnswer ==
  \/ RequestSucceeds \/ RequestFails
  \/ TxCommit \/ TxRequestError \/ TxAbort

SpecAppFair ==
  InitApp /\ [][NextApp]_vars /\ WF_vars(EventLoopTurn) /\ WF_vars(EngineAnswer)

\* ----------------------------------------- progress percentage specification
\* generateCustomersInMemory alone, with no other work of the host, for the
\* longer runs in which the percentages of many batches are seen
InitProgress ==
  /\ BATCH_SIZE \in 1..MaxBatch
  /\ path = "generate"
  /\ count \in 1..MaxLongCount
  /\ TOTAL_RECORDS = count
  /\ store = {}
  /\ onBatchComplete = TRUE
  /\ taskQueue = <<>>
  /\ turnWindows = 0
  /\ uiQueued = 0
  /\ uiDone = {}
  /\ timerArmed = FALSE
  /\ gen = GenIdle
  /\ pop = PopIdle
  /\ tx = TxNone
  /\ calls = <<>>
  /\ windows = <<>>
  /\ uiWaited = FALSE
  /\ progress = 0
  /\ customers = ArrayValue(<<>>)
  /\ loading = TRUE
  /\ error = Null
  /\ useMemoryStorage = FALSE
  /\ db = Null
  /\ available = TRUE
  /\ req = ReqNone
  /\ app = AppIdle
  /\ ViewIdle

NextProgress == TimerFire \/ GenCall \/ GenResume

SpecProgress == InitProgress /\ [][NextProgress]_vars

\* ------------------------------------------------ what the caller observed
BatchCalls == SelectSeq(calls, LAMBDA c : c.cb = "batch")

ProgressCalls == SelectSeq(calls, LAMBDA c : c.cb = "progress")

\* every record handed to batch-ready so far, in delivery order
Delivered == Concat([k \in 1..Len(BatchCalls) |-> BatchCalls[k].records])

DeliveredIds == [i \in 1..Len(Delivered) |-> Delivered[i].id]

\* the total of the run and whether the run is complete
RunTotal == IF path = "generate" THEN count ELSE TOTAL_RECORDS

RunComplete ==
  \/ path = "generate" /\ gen.pc = "returned"
  \/ path = "populate" /\ pop.pc = "resolved"

\* ------------------------------------------------------------------ claims
\* C1: the records handed to batch-ready over one complete run carry each
\* identifier of 1..N exactly once: none outside 1..N, none twice, and at the
\* end of the run none missing.
C1_EachIdExactlyOnce ==
  LET ids == DeliveredIds
  IN  /\ \A i \in 1..Len(ids) : ids[i] \in 1..RunTotal
      /\ Cardinality(Range(ids)) = Len(ids)
      /\ RunComplete => Range(ids) = 1..RunTotal

\* a complete generation run whose total is no multiple of the batch size
C1_Witness ==
  /\ path = "generate" /\ gen.pc = "returned"
  /\ count % BATCH_SIZE # 0
  /\ Len(BatchCalls) >= 2

\* C2: batch-ready is called ceil(N/B) times, every batch has B records but
\* the last, which has N - B*(ceil(N/B)-1), and the k-th progress percentage
\* is floor(100*min(k*B,N)/N).
C2_BatchSizesAndPercentages ==
  path = "generate" =>
    LET bs == BatchCalls
        ps == ProgressCalls
    IN  /\ \A k \in 1..Len(bs) :
             Len(bs[k].records) = Min(BATCH_SIZE, count - BATCH_SIZE * (k - 1))
        /\ gen.pc = "returned" => Len(bs) = (count + BATCH_SIZE - 1) \div BATCH_SIZE
        /\ \A k \in 1..Len(ps) :
             ps[k].percent = (100 * Min(k * BATCH_SIZE, count)) \div count

\* C3: batch-ready notifications arrive in strictly increasing identifier
\* order, across batches and inside each batch.
C3_IncreasingIdOrder ==
  LET ids == DeliveredIds
  IN  \A i \in 1..(Len(ids) - 1) : ids[i] < ids[i + 1]

\* a complete populate run of several batches of several records
C3_Witness ==
  /\ path = "populate" /\ pop.pc = "resolved"
  /\ BATCH_SIZE >= 2
  /\ Len(BatchCalls) >= 2

\* C4: for every window batch-ready is invoked with the window's records
\* before progress is invoked with the window's cumulative count.
C4_BatchReadyBeforeProgress ==
  \A i \in 1..Len(calls) :
    calls[i].cb = "progress" =>
      \E j \in 1..(i - 1) :
        /\ calls[j].cb = "batch"
        /\ calls[j].records[Len(calls[j].records)].id = calls[i].processed

\* C5: between the callbacks of a window and the generation of the next one
\* the producer yields to the host: no two windows are generated in one turn
\* of the event loop, and every user-interface event that was waiting when a
\* window ended has been handled when the next window is generated.
C5_YieldBetweenWindows ==
  /\ turnWindows <= 1
  /\ \A k \in 1..Len(windows) : windows[k].served

\* a window was generated after user-interface events that waited at the end
\* of the window before it
C5_Witness == Len(windows) >= 2 /\ uiWaited

\* C6: during populate, progress and batch-ready of a batch are invoked only
\* after the batch's transaction committed: every record reported so far is
\* in the store.
C6_ReportedImpliesStored ==
  path = "populate" =>
    \A i \in 1..Len(calls) :
      /\ calls[i].cb = "batch" => Ids(calls[i].records) \subseteq store
      /\ calls[i].cb = "progress" => (1..calls[i].processed) \subseteq store

\* two batches are reported and the third is written but not committed
C6_Witness ==
  /\ path = "populate"
  /\ Len(BatchCalls) = 2
  /\ tx.state = "active"
  /\ Ids(tx.records) \cap store = {}

\* C7: when the transaction of a batch errors or aborts, populate fails as a
\* whole: its promise rejects, and from then on no batch is generated,
\* written or reported and the failed batch is not retried.
C7_FailureIsFatal ==
  [][ /\ ( /\ path = "populate"
           /\ pop.pc = "awaitTx"
           /\ taskQueue # <<>>
           /\ Head(taskQueue).type \in {"error", "abort"}
           /\ taskQueue' = Tail(taskQueue) )
         => pop'.pc = "rejected"
      /\ (path = "populate" /\ pop.pc = "rejected")
         => /\ pop' = pop /\ tx' = tx /\ store' = store
            /\ calls' = calls /\ windows' = windows
    ]_vars

\* populate was rejected at a batch after the first and the session is quiet
C7_Witness ==
  /\ path = "populate"
  /\ pop.pc = "rejected"
  /\ pop.batch >= 1
  /\ store # {}
  /\ taskQueue = <<>>
  /\ ~timerArmed

\* ------------------------------------------------- what the page ended with
\* Ready: initData has ended its loading phase without a failure on display
Ready == path = "app" /\ ~loading /\ error = Null

\* the working set is an array that holds each identifier of 1..total once
WholeWorkingSet(total) ==
  /\ customers.isArray
  /\ Len(customers.items) = total
  /\ Ids(customers.items) = 1..total

\* C8: after a transaction failure on a batch of populate the orchestrator
\* falls back to in-memory generation, and once that generation has ended the
\* working set holds exactly the requested total, produced by the in-memory
\* generation only: the generator's records, each identifier once.
C8_FallbackHoldsGeneratedTotal ==
  (path = "app" /\ pop.pc = "rejected" /\ gen.pc = "returned") =>
    /\ useMemoryStorage
    /\ app.generates = 1
    /\ customers = ArrayValue(gen.allCustomers)
    /\ WholeWorkingSet(TOTAL_RECORDS)

\* C9: when the capability probe answers false the orchestrator never opens
\* the store nor sends it any request, the storage mode ends as memory, and at
\* Ready the working set has as many records as were requested.
C9_ProbeFalseMemoryMode ==
  (path = "app" /\ ~available) =>
    /\ app.opens = 0 /\ app.counts = 0 /\ app.populates = 0 /\ app.readAlls = 0
    /\ req = ReqNone /\ tx = TxNone /\ store = {}
    /\ app.pc = "done" => useMemoryStorage
    /\ Ready => customers.isArray /\ Len(customers.items) = TOTAL_RECORDS

C11_FailureFallsBackToReady ==
  (path = "app" /\ app.failure # "") =>
    /\ app.generates = 1
    /\ useMemoryStorage
    /\ gen.pc = "returned" => Ready /\ WholeWorkingSet(TOTAL_RECORDS)

\* C12: in-memory generation is started at most once in a session, and if
\* that generation fails the session ends failed: an error is reported,
\* loading has ended and no request or transaction of the store is under way.
C12_GenerationFailureIsTerminal ==
  path = "app" =>
    /\ app.generates <= 1
    /\ gen.pc = "failed" =>
         /\ error # Null
         /\ ~loading
         /\ ~Answerable(req) /\ req.state # "blocked"
         /\ tx.state # "active"

\* C13: once the session is in memory mode (after a false probe or after a
\* fallback) no later step calls the probe, open-or-create, is-populated,
\* populate or read-all: the calls made stay as they are, no request is sent
\* and no transaction is opened.
C13_NoStoreCallInMemoryMode ==
  [][ (path = "app" /\ useMemoryStorage) =>
        /\ app'.probes = app.probes
        /\ app'.opens = app.opens
        /\ app'.counts = app.counts
        /\ app'.populates = app.populates
        /\ app'.readAlls = app.readAlls
        /\ req' = req
        /\ tx'.state = "active" => tx.state = "active"
    ]_vars

\* a session that fell back after it had opened the store, and whose
\* in-memory generation then ran to its end over several turns
C13_Witness ==
  /\ path = "app"
  /\ useMemoryStorage
  /\ app.opens = 1
  /\ app.failure # ""
  /\ gen.pc = "returned"
  /\ Len(windows) >= 3

\* what the page exposes of the storage mode: the flag behind the "Memory
\* Storage" badge and the warning text
Exposed == [useMemoryStorage |-> useMemoryStorage, error |-> error]

\* what a session exposes at its end when the probe answered false
ExposedAfterProbeFalse == [useMemoryStorage |-> TRUE, error |-> Null]

\* C14: a session that ends Ready in memory mode after a failed open, count,
\* populate or read exposes a storage-mode flag or warning that differs from
\* what a session exposes that ends Ready in memory mode after a false probe.
C14_FallbackCauseExposed ==
  (path = "app" /\ app.pc = "done" /\ Ready /\ useMemoryStorage) =>
    IF app.failure = ""
    THEN Exposed = ExposedAfterProbeFalse
    ELSE Exposed # ExposedAfterProbeFalse

\* C15: while a storage failure still has its fallback (the load is under
\* way, or the in-memory generation that follows the failure is), the error
\* state the page renders is null.
C15_NoErrorWhileFallbackPossible ==
  (path = "app" /\ (loading \/ gen.pc = "suspended")) => error = Null

\* a storage step failed and the in-memory generation that follows is under way
C15_Witness ==
  /\ path = "app"
  /\ app.failure # ""
  /\ gen.pc = "suspended"
  /\ error = Null

\* C16: the number of records in the working set never decreases, it does
\* not change once loading has ended, and the working set never holds two
\* records with the same identifier.
C16_WorkingSetGrowsThenFrozen ==
  /\ [](path = "app" =>
          Cardinality(Ids(customers.items)) = Len(customers.items))
  /\ [][ path = "app" =>
           /\ Len(customers'.items) >= Len(customers.items)
           /\ ~loading => Len(customers'.items) = Len(customers.items)
       ]_vars

\* the stored records were read into the working set, loading has ended and
\* the page has handled user input since
C16_Witness ==
  /\ path = "app"
  /\ ~loading
  /\ Len(customers.items) >= 2
  /\ uiDone # {}

\* C17: every change of the working set appends the records of one delivered
\* batch to the previous contents, which stay in place: a batch handed to
\* batch-ready in that step, or the result of read-all as the one batch of
\* the loading path.
C17_OnlyBatchAppends ==
  [][ (path = "app" /\ customers' # customers) =>
        \/ \E k \in (Len(calls) + 1)..Len(calls') :
             /\ calls'[k].cb = "batch"
             /\ customers' = ArrayValue(customers.items \o calls'[k].records)
        \/ /\ req.kind = "getAll"
           /\ customers' = ArrayValue(customers.items \o req.result)
    ]_vars

\* C18: the loading screen is dismissed when the first batch is ready: once
\* populate has committed and reported a batch, or the in-memory generation
\* has produced one, loading is false, while later batches keep arriving.
C18_LoadingEndsAtFirstBatch ==
  (path = "app" /\ (pop.processed > 0 \/ gen.pc # "idle")) => ~loading

\* C19: every load session that was started eventually has loading = false
\* (Ready or failed), when the event loop is scheduled fairly, whatever the
\* storage engine does, an open request blocked by another session included.
C19_LoadTerminates == (path = "app" /\ app.pc # "idle") ~> ~loading

\* C20: the progress percentages reported during one session, in the order
\* of the reports, never decrease, also when populate has reported progress,
\* fails, and the in-memory generation reports after it.
C20_ProgressNonDecreasing ==
  path = "app" =>
    LET ps == ProgressCalls
    IN  \A i \in 1..(Len(ps) - 1) : ps[i].percent <= ps[i + 1].percent

\* C21: the progress percentage is always within 0..100, and it is 100 when
\* the session is Ready, on each path that ends Ready.
C21_ProgressEndsAtHundred ==
  path = "app" =>
    /\ progress \in 0..100
    /\ Ready => progress = 100

\* the calls of a whole in-memory generation from batchStart on, as the loop
\* of generateCustomersInMemory makes them
RECURSIVE GenTrace(_, _, _)
GenTrace(batchStart, cnt, size) ==
  IF batchStart > cnt
  THEN <<>>
  ELSE LET batchEnd == BatchEnd(batchStart, cnt, size)
       IN  GenCallbacks(BatchCustomers(batchStart, batchEnd), batchEnd, cnt, TRUE)
             \o GenTrace(NextBatchStart(batchStart, size), cnt, size)

C23_PopulateXorReadAll ==
  path = "app" =>
    /\ ~(app.populates >= 1 /\ app.readAlls >= 1)
    /\ app.populates >= 1 => req.kind # "getAll"

\* C24: is-populated answers true exactly when the number of records in the
\* store has reached the expected total, and false for every smaller count,
\* the empty store and a partially written store included.
C24_PopulatedIffTotalReached ==
  [][ (path = "app" /\ app.isPopulated = "unknown" /\ app'.isPopulated # "unknown") =>
        /\ req.kind = "count"
        /\ req.count = Cardinality(store)
        /\ (app'.isPopulated = "true") <=> (Cardinality(store) >= TOTAL_RECORDS)
        /\ (app'.isPopulated = "false") <=> (Cardinality(store) < TOTAL_RECORDS)
    ]_vars

\* a partially written store was counted and is-populated answered false
C24_Witness ==
  /\ path = "app"
  /\ app.isPopulated = "false"
  /\ app.pc = "populating"
  /\ store # {}
  /\ Cardinality(store) < TOTAL_RECORDS

\* C25: a session that finds a store with some records but fewer than the
\* total repopulates it in full: populate writes from identifier 1, and when
\* the session has ended without an engine failure that is unrelated to the
\* records the store held (a transaction that failed although its keys were
\* free, a failed request) the store holds the full total.
C25_PartialStoreRepopulated ==
  (path = "app" /\ app.isPopulated = "false" /\ app.populates = 1 /\ store # {}) =>
    /\ (pop.batch = 0 /\ tx.state # "none") => tx.records[1].id = 1
    /\ ( /\ app.pc = "done"
         /\ ~(tx.state = "aborted" /\ Ids(tx.records) \cap store = {})
         /\ req.state # "failed" )
       => Cardinality(store) = TOTAL_RECORDS

\* ------------------------------------------------------------- the table view
\* A string is the sequence of its UTF-16 code units. The characters the
\* generated records and the queries are written with, and their code units:
DigitChars == <<"0", "1", "2", "3", "4", "5", "6", "7", "8", "9">>

UpperChars ==
  <<"A", "B", "C", "D", "E", "F", "G", "H", "I", "J", "K", "L", "M",
    "N", "O", "P", "Q", "R", "S", "T", "U", "V", "W", "X", "Y", "Z">>

LowerChars ==
  <<"a", "b", "c", "d", "e", "f", "g", "h", "i", "j", "k", "l", "m",
    "n", "o", "p", "q", "r", "s", "t", "u", "v", "w", "x", "y", "z">>

OtherChars == <<" ", "(", ")", "+", "-", ".", ":", "@">>

OtherCodes == <<32, 40, 41, 43, 45, 46, 58, 64>>

IndexOf(c, cs) == CHOOSE i \in 1..Len(cs) : cs[i] = c

CodeUnit(c) ==
  IF c \in Range(DigitChars) THEN 47 + IndexOf(c, DigitChars)
  ELSE IF c \in Range(UpperChars) THEN 64 + IndexOf(c, UpperChars)
  ELSE IF c \in Range(LowerChars) THEN 96 + IndexOf(c, LowerChars)
  ELSE OtherCodes[IndexOf(c, OtherChars)]

\* the code units the conversions test for
CodeOfUpperA == CodeUnit("A")

CodeOfUpperZ == CodeUnit("Z")

CodeOfLowerA == CodeUnit("a")

CodeOfZero == CodeUnit("0")

\* the string literal whose characters are cs
Str(cs) == [i \in 1..Len(cs) |-> CodeUnit(cs[i])]

\* String.prototype.toLowerCase on the ASCII range: A..Z become a..z
toLowerCase(s) ==
  [i \in 1..Len(s) |->
     IF s[i] >= CodeOfUpperA /\ s[i] <= CodeOfUpperZ
     THEN s[i] + (CodeOfLowerA - CodeOfUpperA)
     ELSE s[i]]

\* String.prototype.includes: t occurs in s at some position
includes(s, t) ==
  \E i \in 0..(Len(s) - Len(t)) : \A k \in 1..Len(t) : s[i + k] = t[k]

\* a < b of two strings (by code units), and of two numbers held as the
\* sequence of their parts, the most significant first
LessThan(a, b) ==
  \E k \in 1..Len(b) :
    /\ \A j \in 1..(k - 1) : j <= Len(a) /\ a[j] = b[j]
    /\ k > Len(a) \/ a[k] < b[k]

\* the decimal digits of n, as a template literal writes a number
RECURSIVE NumberToString(_)
NumberToString(n) ==
  IF n < 10
  THEN <<CodeOfZero + n>>
  ELSE NumberToString(n \div 10) \o <<CodeOfZero + (n % 10)>>

\* n in at least w digits, as toISOString writes its fields
RECURSIVE Pad(_, _)
Pad(n, w) ==
  IF w <= 1 THEN NumberToString(n) ELSE
  LET s == NumberToString(n)
  IN  IF Len(s) >= w THEN s ELSE <<CodeOfZero>> \o Pad(n, w - 1)

\* the number a run of decimal digits denotes
RECURSIVE ParseDigits(_)
ParseDigits(s) ==
  IF s = <<>> THEN 0
  ELSE 10 * ParseDigits(SubSeq(s, 1, Len(s) - 1)) + (s[Len(s)] - CodeOfZero)

\* A time value is [day |-> days since 1970-01-01, ms |-> milliseconds within
\* the day]: the number of milliseconds it stands for, day * 86400000 + ms, is
\* beyond the integers of the checker.
\* the calendar date of a day number (proleptic Gregorian, UTC)
CivilFromDays(day) ==
  LET z   == day + 719468
      era == z \div 146097
      doe == z - era * 146097
      yoe == (doe - doe \div 1460 + doe \div 36524 - doe \div 146096) \div 365
      doy == doe - (365 * yoe + yoe \div 4 - yoe \div 100)
      mp  == (5 * doy + 2) \div 153
      m   == IF mp < 10 THEN mp + 3 ELSE mp - 9
  IN  [year  |-> yoe + era * 400 + (IF m <= 2 THEN 1 ELSE 0),
       month |-> m,
       date  |-> doy - (153 * mp + 2) \div 5 + 1]

\* the day number of a calendar date
DaysFromCivil(year, month, date) ==
  LET y   == IF month <= 2 THEN year - 1 ELSE year
      era == y \div 400
      yoe == y - era * 400
      doy == (153 * (IF month > 2 THEN month - 3 ELSE month + 9) + 2) \div 5 + date - 1
      doe == yoe * 365 + yoe \div 4 - yoe \div 100 + doy
  IN  era * 146097 + doe - 719468

\* Date.prototype.toISOString: YYYY-MM-DDTHH:mm:ss.sssZ
toISOString(t) ==
  LET c == CivilFromDays(t.day)
      h == t.ms \div 3600000
      m == (t.ms % 3600000) \div 60000
      s == (t.ms % 60000) \div 1000
  IN  Pad(c.year, 4) \o Str(<<"-">>) \o Pad(c.month, 2) \o Str(<<"-">>) \o Pad(c.date, 2)
        \o Str(<<"T">>) \o Pad(h, 2) \o Str(<<":">>) \o Pad(m, 2) \o Str(<<":">>) \o Pad(s, 2)
        \o Str(<<".">>) \o Pad(t.ms % 1000, 3) \o Str(<<"Z">>)

\* new Date(string).getTime() of a string in the format of toISOString
DateGetTime(s) ==
  [day |-> DaysFromCivil(ParseDigits(SubSeq(s, 1, 4)), ParseDigits(SubSeq(s, 6, 7)),
                         ParseDigits(SubSeq(s, 9, 10))),
   ms  |-> ParseDigits(SubSeq(s, 12, 13)) * 3600000 + ParseDigits(SubSeq(s, 15, 16)) * 60000
             + ParseDigits(SubSeq(s, 18, 19)) * 1000 + ParseDigits(SubSeq(s, 21, 23))]

\* the longest working set the view is followed on
MaxView == 3

\* generatePhone with its three random numbers
generatePhone(areaCode, prefix, lineNumber) ==
  Str(<<"+", "1", " ", "(">>) \o NumberToString(areaCode) \o Str(<<")", " ">>)
    \o NumberToString(prefix) \o Str(<<"-">>) \o NumberToString(lineNumber)

\* generateDate with its random time
generateDate(randomTime) == toISOString(randomTime)

\* generateCustomer with the values its random draws gave (the avatar, which
\* no column and no search reads, is left out)
generateCustomerWith(id, r) ==
  [id            |-> id,
   name          |-> r.firstName \o Str(<<" ">>) \o r.lastName,
   phone         |-> generatePhone(r.areaCode, r.prefix, r.lineNumber),
   email         |-> toLowerCase(r.firstName) \o Str(<<".">>) \o toLowerCase(r.lastName)
                       \o NumberToString(id) \o Str(<<"@">>) \o r.domain,
   score         |-> r.score,
   lastMessageAt |-> generateDate(r.randomTime),
   addedBy       |-> r.addedFirst \o Str(<<" ">>) \o r.addedLast]

\* names and a domain of the generator's lists
John  == Str(<<"J", "o", "h", "n">>)

Mary  == Str(<<"M", "a", "r", "y">>)

Lee   == Str(<<"L", "e", "e">>)

Moore == Str(<<"M", "o", "o", "r", "e">>)

Gmail == Str(<<"g", "m", "a", "i", "l", ".", "c", "o", "m">>)

\* what the random draws of one generateCustomer call can give: records that
\* agree on some columns and differ on others
Draws ==
  { [firstName |-> John, lastName |-> Lee, domain |-> Gmail,
     areaCode |-> 555, prefix |-> 123, lineNumber |-> 4567, score |-> 42,
     randomTime |-> [day |-> 20000, ms |-> 86399999],
     addedFirst |-> Mary, addedLast |-> Moore],
    [firstName |-> Mary, lastName |-> Moore, domain |-> Gmail,
     areaCode |-> 555, prefix |-> 123, lineNumber |-> 4567, score |-> 42,
     randomTime |-> [day |-> 20000, ms |-> 86399999],
     addedFirst |-> John, addedLast |-> Lee],
    [firstName |-> John, lastName |-> Lee, domain |-> Gmail,
     areaCode |-> 202, prefix |-> 555, lineNumber |-> 1000, score |-> 7,
     randomTime |-> [day |-> 20001, ms |-> 0],
     addedFirst |-> Mary, addedLast |-> Lee] }

\* the working sets of up to MaxView records: record i has identifier i
WorkingSets ==
  UNION { {[i \in 1..n |-> generateCustomerWith(i, d[i])] : d \in [1..n -> Draws]}
          : n \in 0..MaxView }

\* what the user types into the search box
SearchTerms ==
  { <<>>,
    Str(<<"l", "e", "e">>),
    Str(<<"L", "E", "E">>),
    Str(<<"M", "a", "r", "y">>),
    Str(<<"4", "2">>),
    Str(<<"5", "5">>) }

\* the columns of the table header, the ones the mobile select offers, and
\* the directions
Columns == {"id", "name", "phone", "email", "score", "lastMessageAt", "addedBy"}

MobileColumns == {"id", "name", "score", "email", "lastMessageAt"}

Directions == {"asc", "desc"}

\* the test of the filter callback on one customer
CustomerMatchesAddedBy(customer, searchLower) ==
  \/ includes(toLowerCase(customer.name), searchLower)
  \/ includes(toLowerCase(customer.email), searchLower)
  \/ includes(toLowerCase(customer.phone), searchLower)
  \/ includes(toLowerCase(customer.addedBy), searchLower)

CustomerMatchesAll(customer, searchLower) == TRUE

CustomerMatches(customer, searchLower) ==
  \/ includes(toLowerCase(customer.name), searchLower)
  \/ includes(toLowerCase(customer.email), searchLower)
  \/ includes(toLowerCase(customer.phone), searchLower)

\* const searchLower = debouncedSearchTerm.toLowerCase()
SearchLowerAsTyped(term) == term

SearchLower(term) == toLowerCase(term)

\* the body of the filteredCustomers memo for a working set and a term
FilterCustomersNoneOnEmpty(cs, term) ==
  SelectSeq(cs, LAMBDA customer :
    term # <<>> /\ CustomerMatches(customer, SearchLower(term)))

FilterCustomers(cs, term) ==
  IF term = <<>>
  THEN cs
  ELSE LET searchLower == SearchLower(term)
       IN  SelectSeq(cs, LAMBDA customer : CustomerMatches(customer, searchLower))

\* the comparison value of the decorate step; a number is held as the
\* sequence of its parts (see LessThan)
CompareValueAsString(customer, column) ==
  IF column = "score" \/ column = "id"
  THEN NumberToString(customer[column])
  ELSE IF column = "lastMessageAt"
  THEN LET t == DateGetTime(customer[column]) IN <<t.day, t.ms>>
  ELSE toLowerCase(customer[column])

CompareValue(customer, column) ==
  IF column = "score" \/ column = "id"
  THEN <<customer[column]>>
  ELSE IF column = "lastMessageAt"
  THEN LET t == DateGetTime(customer[column]) IN <<t.day, t.ms>>
  ELSE toLowerCase(customer[column])

\* the comparator of decorated.sort
ComparatorNoTie(a, b, direction) ==
  IF LessThan(a.compareValue, b.compareValue)
  THEN (IF direction = "asc" THEN -1 ELSE 1)
  ELSE (IF direction = "asc" THEN 1 ELSE -1)

ComparatorAscending(a, b, direction) ==
  IF LessThan(a.compareValue, b.compareValue)
  THEN -1
  ELSE IF LessThan(b.compareValue, a.compareValue)
  THEN 1
  ELSE 0

ComparatorInverted(a, b, direction) ==
  IF LessThan(a.compareValue, b.compareValue)
  THEN (IF direction = "asc" THEN 1 ELSE -1)
  ELSE IF LessThan(b.compareValue, a.compareValue)
  THEN (IF direction = "asc" THEN -1 ELSE 1)
  ELSE 0

Comparator(a, b, direction) ==
  IF LessThan(a.compareValue, b.compareValue)
  THEN (IF direction = "asc" THEN -1 ELSE 1)
  ELSE IF LessThan(b.compareValue, a.compareValue)
  THEN (IF direction = "asc" THEN 1 ELSE -1)
  ELSE 0

\* Array.prototype.sort, which is stable: an element is placed behind the
\* last of the elements before it that the comparator does not put after it
RECURSIVE ArraySort(_, _)
ArraySort(arr, direction) ==
  IF Len(arr) <= 1
  THEN arr
  ELSE LET front == ArraySort(SubSeq(arr, 1, Len(arr) - 1), direction)
           x     == arr[Len(arr)]
           keep  == {i \in 1..Len(front) : Comparator(front[i], x, direction) <= 0}
           p     == IF keep = {} THEN 0 ELSE CHOOSE i \in keep : \A j \in keep : j <= i
       IN  SubSeq(front, 1, p) \o <<x>> \o SubSeq(front, p + 1, Len(front))

\* the body of the sortedCustomers memo: decorate, sort, undecorate
SortCustomers(view, config) ==
  LET decorated == [i \in 1..Len(view) |->
                      [customer |-> view[i],
                       compareValue |-> CompareValue(view[i], config.column)]]
      sorted    == ArraySort(decorated, config.direction)
  IN  [i \in 1..Len(sorted) |-> sorted[i].customer]

\* the two memos, as the render has them
filteredCustomers == FilterCustomers(customers.items, debouncedSearchTerm)

sortedCustomers == SortCustomers(filteredCustomers, sortConfig)

\* the array decorated.sort reorders in place: the copy the decorate step made
SortedInPlaceFiltered == "filteredCustomers"

SortedInPlace == "decorated"

\* the working set after the sort of a render. The filtered view is the
\* working set itself when the term is empty, so a sort that reordered the
\* filtered view in place would reorder the working set
AfterSort(cs, term, config) ==
  IF SortedInPlace = "filteredCustomers" /\ term = <<>>
  THEN ArrayValue(SortCustomers(cs.items, config))
  ELSE cs

\* the cleanup of the effect of useDebounce: clearTimeout(handler)
ClearedTimersKept(timers) == timers

ClearedTimers(timers) == {}

\* SearchBar's onChange: the term is stored, and the effect of useDebounce
\* clears the timer it had and sets a new one that holds the new value
handleSearchChange ==
  /\ path = "view"
  /\ \E value \in SearchTerms :
       /\ value # searchTerm
       /\ searchTerm' = value
       /\ debounceTimer' = ClearedTimers(debounceTimer) \cup {value}
  /\ UNCHANGED <<debouncedSearchTerm, sortConfig, paramVars, hostVars, genVars, popVars,
                 obsVars, appVars>>

\* a timer of useDebounce fires: setDebouncedValue(value), with the value the
\* effect that set the timer had; the memos are computed again
DebounceFire ==
  /\ path = "view"
  /\ \E value \in debounceTimer :
       /\ debounceTimer' = debounceTimer \ {value}
       /\ debouncedSearchTerm' = value
  /\ customers' = AfterSort(customers, debouncedSearchTerm', sortConfig)
  /\ UNCHANGED <<searchTerm, sortConfig, paramVars, hostVars, genVars, popVars, obsVars,
                 loading, error, useMemoryStorage, db, available, req, app>>

\* the direction a click on a column header asks for
SortDirectionOnClickToggle(config, column) ==
  IF config.direction = "asc" THEN "desc" ELSE "asc"

SortDirectionOnClick(config, column) ==
  IF config.column = column /\ config.direction = "asc" THEN "desc" ELSE "asc"

\* a click on a column header: handleSort and handleSortChange, and the sort
\* of the render that follows
handleSort ==
  /\ path = "view"
  /\ \E column \in Columns :
       sortConfig' = [column |-> column,
                      direction |-> SortDirectionOnClick(sortConfig, column)]
  /\ customers' = AfterSort(customers, debouncedSearchTerm, sortConfig')
  /\ UNCHANGED <<searchTerm, debouncedSearchTerm, debounceTimer, paramVars, hostVars,
                 genVars, popVars, obsVars,
                 loading, error, useMemoryStorage, db, available, req, app>>

\* a choice in the sort select of the mobile view, and the sort of the
\* render that follows
MobileSortChange ==
  /\ path = "view"
  /\ \E column \in MobileColumns, direction \in Directions :
       /\ [column |-> column, direction |-> direction] # sortConfig
       /\ sortConfig' = [column |-> column, direction |-> direction]
  /\ customers' = AfterSort(customers, debouncedSearchTerm, sortConfig')
  /\ UNCHANGED <<searchTerm, debouncedSearchTerm, debounceTimer, paramVars, hostVars,
                 genVars, popVars, obsVars,
                 loading, error, useMemoryStorage, db, available, req, app>>

\* the page after a load has ended with the working set an array; the mount
\* effect of useDebounce has set its first timer
InitView ==
  /\ path = "view"
  /\ customers \in {ArrayValue(w) : w \in WorkingSets}
  /\ count = Len(customers.items)
  /\ TOTAL_RECORDS = count
  /\ BATCH_SIZE = 1
  /\ onBatchComplete = FALSE
  /\ store = {}
  /\ taskQueue = <<>>
  /\ turnWindows = 0
  /\ uiQueued = 0
  /\ uiDone = {}
  /\ timerArmed = FALSE
  /\ gen = GenIdle
  /\ pop = PopIdle
  /\ tx = TxNone
  /\ calls = <<>>
  /\ windows = <<>>
  /\ uiWaited = FALSE
  /\ progress = 0
  /\ loading = FALSE
  /\ error = Null
  /\ useMemoryStorage = FALSE
  /\ db = Null
  /\ available = TRUE
  /\ req = ReqNone
  /\ app = AppIdle
  /\ searchTerm = <<>>
  /\ debouncedSearchTerm = <<>>
  /\ debounceTimer = {<<>>}
  /\ sortConfig = [column |-> "id", direction |-> "asc"]

NextView == handleSearchChange \/ DebounceFire \/ handleSort \/ MobileSortChange

SpecView == InitView /\ [][NextView]_vars

\* the filter as the specification words it: name and email folded, the
\* phone as displayed
MatchesAsSpecified(customer, q) ==
  \/ includes(toLowerCase(customer.name), toLowerCase(q))
  \/ includes(toLowerCase(customer.email), toLowerCase(q))
  \/ includes(customer.phone, q)

\* C26: filtering with an empty query returns the working set itself,
\* unchanged in content and order, for every working set.
C26_EmptyQueryIsIdentity ==
  (path = "view" /\ debouncedSearchTerm = <<>>) =>
    filteredCustomers = customers.items

\* the user has sorted a working set of several records, the query is empty
\* and no debounce is pending
C26_Witness ==
  /\ path = "view"
  /\ debouncedSearchTerm = <<>>
  /\ debounceTimer = {}
  /\ sortConfig.column = "name"
  /\ Len(filteredCustomers) >= 2

\* two code units are the same character or the two cases of one letter
SameLetter(c, d) ==
  \/ c = d
  \/ /\ c >= CodeOfUpperA /\ c <= CodeOfUpperZ
     /\ d = c + (CodeOfLowerA - CodeOfUpperA)
  \/ /\ d >= CodeOfUpperA /\ d <= CodeOfUpperZ
     /\ c = d + (CodeOfLowerA - CodeOfUpperA)

\* two queries differ at most in letter case
DifferOnlyInCase(q1, q2) ==
  /\ Len(q1) = Len(q2)
  /\ \A i \in 1..Len(q1) : SameLetter(q1[i], q2[i])

\* C27: filtering is case-insensitive in the query: every query that differs
\* from the one in force only in letter case gives the same filtered view.
C27_QueryCaseInsensitive ==
  path = "view" =>
    LET view == filteredCustomers
    IN  \A q \in SearchTerms :
          DifferOnlyInCase(q, debouncedSearchTerm) =>
            FilterCustomers(customers.items, q) = view

\* an upper-case query is in force and selects some records but not all
C27_Witness ==
  /\ path = "view"
  /\ debouncedSearchTerm = Str(<<"L", "E", "E">>)
  /\ filteredCustomers # <<>>
  /\ Len(filteredCustomers) < Len(customers.items)

\* C28: for a non-empty query q the filtered view is exactly the subsequence
\* of the working set, in insertion order, of the records whose folded name
\* contains folded q, or whose folded email does, or whose phone string
\* contains q; no other field makes a record match.
C28_ViewIsMatchingSubsequence ==
  (path = "view" /\ debouncedSearchTerm # <<>>) =>
    filteredCustomers =
      SelectSeq(customers.items,
                LAMBDA customer : MatchesAsSpecified(customer, debouncedSearchTerm))

\* the query selects a record and leaves out one whose added-by contains it
C28_Witness ==
  /\ path = "view"
  /\ debouncedSearchTerm = Mary
  /\ filteredCustomers # <<>>
  /\ \E i \in 1..Len(customers.items) :
       /\ includes(customers.items[i].addedBy, Mary)
       /\ customers.items[i] \notin Range(filteredCustomers)

\* C29: a query that matches no record of a non-empty working set yields an
\* empty filtered view, and sorting an empty view yields an empty view under
\* every sort directive.
C29_NoMatchGivesEmptyViews ==
  ( /\ path = "view"
    /\ customers.items # <<>>
    /\ debouncedSearchTerm # <<>>
    /\ \A i \in 1..Len(customers.items) :
         ~MatchesAsSpecified(customers.items[i], debouncedSearchTerm) )
  => LET view == filteredCustomers
     IN  /\ view = <<>>
         /\ SortCustomers(view, sortConfig) = <<>>
         /\ \A column \in Columns, direction \in Directions :
              SortCustomers(view, [column |-> column, direction |-> direction]) = <<>>

\* the query 42 is a score of the working set and matches no record, and
\* the view is sorted by timestamp, newest first
C29_Witness ==
  /\ path = "view"
  /\ debouncedSearchTerm = Str(<<"4", "2">>)
  /\ Len(customers.items) >= 2
  /\ \E i \in 1..Len(customers.items) : customers.items[i].score = 42
  /\ sortConfig = [column |-> "lastMessageAt", direction |-> "desc"]
  /\ sortedCustomers = <<>>

\* the position of the record with an identifier in a view
PositionOf(view, id) == CHOOSE k \in 1..Len(view) : view[k].id = id

\* C30: sorting is stable in both directions: two records of the input view
\* whose comparison values on the active column are equal appear in the
\* output in the same relative order as in the input.
C30_SortIsStable ==
  path = "view" =>
    LET view   == filteredCustomers
        sorted == SortCustomers(view, sortConfig)
    IN  /\ Len(sorted) = Len(view)
        /\ \A i, j \in 1..Len(view) :
             ( /\ i < j
               /\ CompareValue(view[i], sortConfig.column)
                    = CompareValue(view[j], sortConfig.column) )
             => PositionOf(sorted, view[i].id) < PositionOf(sorted, view[j].id)

\* a descending sort has moved a record over two records of equal score
C30_Witness ==
  /\ path = "view"
  /\ sortConfig = [column |-> "score", direction |-> "desc"]
  /\ Len(filteredCustomers) = 3
  /\ filteredCustomers[1].score < filteredCustomers[2].score
  /\ filteredCustomers[2].score = filteredCustomers[3].score
  /\ sortedCustomers # filteredCustomers

\* the typed key of a column: the number for id and score, the timestamp
\* (day, then milliseconds) for lastMessageAt, the folded string otherwise
TypedKey(customer, column) ==
  CASE column \in {"id", "score"} -> <<customer[column]>>
    [] column = "lastMessageAt" ->
         <<DateGetTime(customer.lastMessageAt).day, DateGetTime(customer.lastMessageAt).ms>>
    [] OTHER -> toLowerCase(customer[column])

\* C31: the sort output is a permutation of its input, ordered by the typed
\* key of the active column: ascending puts smaller keys first, descending
\* puts larger keys first.
C31_SortedPermutationByTypedKey ==
  path = "view" =>
    LET view   == filteredCustomers
        sorted == SortCustomers(view, sortConfig)
    IN  /\ Len(sorted) = Len(view)
        /\ \A i \in 1..Len(view) :
             Cardinality({k \in 1..Len(sorted) : sorted[k] = view[i]}) = 1
        /\ \A k \in 1..(Len(sorted) - 1) :
             LET a == TypedKey(sorted[k], sortConfig.column)
                 b == TypedKey(sorted[k + 1], sortConfig.column)
             IN  IF sortConfig.direction = "asc" THEN ~LessThan(b, a) ELSE ~LessThan(a, b)

\* three records were sorted by score, ascending, 7 before 42, and the
\* output differs from the input
C31_Witness ==
  /\ path = "view"
  /\ sortConfig = [column |-> "score", direction |-> "asc"]
  /\ Len(filteredCustomers) = 3
  /\ sortedCustomers # filteredCustomers
  /\ sortedCustomers[1].score = 7
  /\ sortedCustomers[3].score = 42

\* a sequence back to front
Reverse(s) == [k \in 1..Len(s) |-> s[Len(s) + 1 - k]]

\* the other direction
InvertDirection(direction) == IF direction = "asc" THEN "desc" ELSE "asc"

\* C32: for a view whose keys on the active column are all distinct, sorting
\* it by a direction and then sorting the result by the inverted direction
\* yields the exact reverse of the first sort.
C32_InvertedSortReverses ==
  path = "view" =>
    LET view   == filteredCustomers
        sorted == SortCustomers(view, sortConfig)
        back   == SortCustomers(sorted, [column    |-> sortConfig.column,
                                         direction |-> InvertDirection(sortConfig.direction)])
    IN  (\A i, j \in 1..Len(view) :
           i # j => CompareValue(view[i], sortConfig.column)
                      # CompareValue(view[j], sortConfig.column))
        => back = Reverse(sorted)

\* three records with distinct emails are sorted by email, descending
C32_Witness ==
  /\ path = "view"
  /\ sortConfig = [column |-> "email", direction |-> "desc"]
  /\ Len(filteredCustomers) = 3
  /\ sortedCustomers # Reverse(sortedCustomers)

\* the identifiers of a view, in its order
ViewIds(view) == [k \in 1..Len(view) |-> view[k].id]

\* C33: sorting by id, ascending, a working set generated with identifiers
\* 1..N yields the records in the order 1, 2, ..., N, in whatever order an
\* earlier sort has left the view.
C33_SortByIdRestoresOrder ==
  path = "view" =>
    LET byId == [column |-> "id", direction |-> "asc"]
        N    == Len(customers.items)
    IN  /\ ViewIds(SortCustomers(customers.items, byId)) = [k \in 1..N |-> k]
        /\ debouncedSearchTerm = <<>> =>
             ViewIds(SortCustomers(sortedCustomers, byId)) = [k \in 1..N |-> k]

\* the whole working set of three records is shown in another order than
\* that of its identifiers
C33_Witness ==
  /\ path = "view"
  /\ debouncedSearchTerm = <<>>
  /\ Len(customers.items) = 3
  /\ sortConfig.column # "id"
  /\ ViewIds(sortedCustomers) # <<1, 2, 3>>

\* C34: filtering and sorting never change the working set: whatever the
\* query and the sort directive become, the working set keeps its records
\* in their order, also when the query is empty and the view that is sorted
\* is the working set itself.
C34_WorkingSetNeverMutated ==
  [][ path = "view" => customers' = customers ]_vars

\* the whole working set is shown by descending identifier while the
\* working set itself is in insertion order
C34_Witness ==
  /\ path = "view"
  /\ debouncedSearchTerm = <<>>
  /\ sortConfig = [column |-> "id", direction |-> "desc"]
  /\ ViewIds(customers.items) = <<1, 2, 3>>
  /\ ViewIds(sortedCustomers) = <<3, 2, 1>>

\* C35: a click on a column header replaces the sort directive wholesale: a
\* click on the active column while it is ascending gives that column,
\* descending; every other click gives the clicked column, ascending; and
\* the directive is always one column of the closed set and one direction.
C35_HeaderClickReplacesDirective ==
  /\ [](path = "view" =>
          /\ DOMAIN sortConfig = {"column", "direction"}
          /\ sortConfig.column \in
               {"id", "name", "email", "phone", "score", "lastMessageAt", "addedBy"}
          /\ sortConfig.direction \in {"asc", "desc"})
  /\ [][ handleSort =>
           IF sortConfig'.column = sortConfig.column /\ sortConfig.direction = "asc"
           THEN sortConfig'.direction = "desc"
           ELSE sortConfig'.direction = "asc"
       ]_vars

\* the phone column, which only the header offers, is sorted descending
C35_Witness ==
  /\ path = "view"
  /\ sortConfig = [column |-> "phone", direction |-> "desc"]

\* the processed count of the last progress report, 0 before the first
LastReported ==
  LET ps == ProgressCalls
  IN  IF ps = <<>> THEN 0 ELSE ps[Len(ps)].processed

\* the populate run started on an empty store: the store is still empty, or
\* a batch of the run has committed (on a store that holds records the first
\* batch can never commit)
StartedOnEmptyStore == store = {} \/ pop.processed > 0 \/ tx.state = "committed"

\* C36 as stated: during populate on an initially empty store the number of
\* stored records is in every state a multiple of the batch size, equal to
\* the processed count last reported through progress, and the stored
\* identifiers are exactly 1..processed.
C36_StoreEqualsReported ==
  (path = "populate" /\ StartedOnEmptyStore) =>
    /\ Cardinality(store) % BATCH_SIZE = 0
    /\ Cardinality(store) = LastReported
    /\ store = 1..LastReported

\* C36, amended: during populate on an initially empty store the number of
\* stored records is in every state a multiple of the batch size and the
\* stored identifiers are exactly 1..stored; the count equals the processed
\* count last reported, or exceeds it by the one batch whose transaction has
\* committed and whose completion event has not been handled yet.
C36_StoreWholeBatchesAheadByOne ==
  (path = "populate" /\ StartedOnEmptyStore) =>
    /\ Cardinality(store) % BATCH_SIZE = 0
    /\ store = 1..Cardinality(store)
    /\ \/ Cardinality(store) = LastReported
       \/ /\ Cardinality(store) = LastReported + BATCH_SIZE
          /\ tx.state = "committed"
          /\ pop.pc = "awaitTx"

\* the second batch of several records is committed and not yet reported
C36_Witness ==
  /\ path = "populate"
  /\ BATCH_SIZE >= 2
  /\ LastReported = BATCH_SIZE
  /\ Cardinality(store) = 2 * BATCH_SIZE
  /\ tx.state = "committed"
  /\ pop.pc = "awaitTx"

\* the view with a timer that fires: a timer that is set and not cleared
\* fires after its delay
SpecViewFair == InitView /\ [][NextView]_vars /\ WF_vars(DebounceFire)

\* C37: the debounced term changes only to a raw term that has not changed
\* since its timer was set: a change of the raw term cancels the timer that
\* was pending, so at most one timer is pending and it holds the raw term,
\* no value the user typed over reaches the filter, and if the raw term
\* stops changing the debounced term eventually equals it.
C37_DebounceFollowsQuietTerm ==
  /\ [](path = "view" =>
          /\ debounceTimer \subseteq {searchTerm}
          /\ searchTerm # debouncedSearchTerm => debounceTimer # {})
  /\ [][ (path = "view" /\ debouncedSearchTerm' # debouncedSearchTerm) =>
           /\ debouncedSearchTerm' = searchTerm
           /\ searchTerm' = searchTerm
           /\ debounceTimer' = {}
       ]_vars
  /\ (<>[][UNCHANGED searchTerm]_vars) => <>[](debouncedSearchTerm = searchTerm)

\* the user has typed a term that has not reached the filter, and its timer
\* is the one that is pending
C37_Witness ==
  /\ path = "view"
  /\ debouncedSearchTerm = <<>>
  /\ searchTerm = Str(<<"l", "e", "e">>)
  /\ debounceTimer = {searchTerm}
  /\ sortConfig.column = "addedBy"

\* C38: when in-memory generation completes, the collection it returns is
\* the sequence of all N records, the concatenation in delivery order of the
\* batches it passed to batch-ready, and the caller that stores the return
\* value as the working set has exactly N records.
C38_ReturnedCollectionIsWorkingSet ==
  /\ (path = "generate" /\ gen.pc = "returned") =>
       /\ gen.allCustomers = Delivered
       /\ ViewIds(gen.allCustomers) = [k \in 1..count |-> k]
  /\ (path = "app" /\ app.generates = 1 /\ gen.pc = "returned") =>
       /\ ViewIds(gen.allCustomers) = [k \in 1..TOTAL_RECORDS |-> k]
       /\ customers = ArrayValue(gen.allCustomers)
       /\ Len(customers.items) = TOTAL_RECORDS

\* C39: the storage-mode flag tells the truth when loading has ended:
\* useMemoryStorage is true if and only if the working set is what the
\* in-memory generation gave, it is false whenever the working set was read
\* from the persistent store, and once true it is never reset to false.
C39_StorageFlagTellsOrigin ==
  /\ [](( path = "app" /\ ~loading) =>
          /\ useMemoryStorage <=> app.generates = 1
          /\ useMemoryStorage <=> customers = PromiseValue
          /\ ~useMemoryStorage =>
               /\ req.kind = "getAll" /\ req.state = "done"
               /\ customers = ArrayValue(req.result)
               /\ customers = ArrayValue(GetAll(store)))
  /\ [][ (path = "app" /\ useMemoryStorage) => useMemoryStorage' ]_vars

\* the read of a populated store failed and the session fell back to memory
C39_Witness ==
  /\ path = "app"
  /\ ~loading
  /\ useMemoryStorage
  /\ app.readAlls = 1
  /\ app.generates = 1
  /\ Cardinality(store) = TOTAL_RECORDS

\* C40: when loading has ended, the error state is non-null if and only if
\* the persistent path and the in-memory fallback both failed: a fallback
\* that succeeds clears the error of the storage failure, and an error is
\* never set next to a fully populated working set.
C40_ErrorIffBothFailed ==
  (path = "app" /\ ~loading) =>
    /\ error # Null <=> (app.failure # "" /\ gen.pc = "failed")
    /\ error # Null => ~WholeWorkingSet(TOTAL_RECORDS)

====
